---- MODULE Spec2Model ----
(***************************************************************************)
(* Plugin registry and dynamic router of the OpenClaw proxy server.        *)
(*                                                                         *)
(*   src/src/core/registry.ts      PluginRegistry                          *)
(*   src/src/core/router.ts        createRouter (the three GET routes)     *)
(*   src/unnamed/part_002          errorHandler (terminal error stage)     *)
(*   src/src/apps/linear/...       the linear plugin and its descriptors   *)
(*                                                                         *)
(* The process starts (registerPlugin calls), mounts the router, and then  *)
(* serves requests.  A request is cut into steps at the points where the   *)
(* code suspends: `await plugin.initialize()` in getPlugin and             *)
(* `await pathHandler.handler(...)` in the execute route.  An await whose  *)
(* continuation reads no shared state (the return of getPlugin to the      *)
(* route) is folded into the step before it.                               *)
(***************************************************************************)
EXTENDS Integers, Sequences, FiniteSets, TLC

\* ------------------------------------------------------------------ bounds
\* initialize invocations per plugin name that the model follows
MaxInitCalls == 2

\* ---------------------------------------------------------------- JS values
Undefined == "undefined"

Truthy(v) == v # Undefined /\ v # ""

\* ------------------------------------------------------------ error classes
\* new AppError(message, statusCode)
AppError(message, statusCode) ==
    [class |-> "AppError", message |-> message, statusCode |-> statusCode]

\* new PluginError(pluginName, message, statusCode = 500)
PluginError(pluginName, message, statusCode) ==
    [class |-> "PluginError", message |-> message, statusCode |-> statusCode,
     pluginName |-> pluginName]

\* new ApiError(message, statusCode = 502)
ApiError(message, statusCode) ==
    [class |-> "ApiError", message |-> message, statusCode |-> statusCode]

\* new Error(message): no statusCode, not an AppError
PlainError(message) == [class |-> "Error", message |-> message]

\* a thrown value that is not an Error object at all (throw 'text')
NonErrorValue == [class |-> "NonError"]

\* the URIError Express raises when a route parameter cannot be decoded; it
\* carries status 400 in a field of its own and is not an AppError
URIError(message) ==
    [class |-> "URIError", message |-> message, status |-> 400, statusCode |-> 400]

\* err instanceof AppError (PluginError and ApiError extend AppError)
InstanceOfAppError(err) == err.class \in {"AppError", "PluginError", "ApiError"}

\* err instanceof PluginError
InstanceOfPluginError(err) == err.class = "PluginError"

\* err instanceof Error
InstanceOfError(err) ==
    err.class \in {"Error", "URIError", "AppError", "PluginError", "ApiError"}

\* ------------------------------------------------------- path descriptors
\* A PathHandler: name, description, handler (named by an id), schema?
\* src/src/apps/linear/paths/issue-detail.ts: issueDetailHandler
issueDetailHandler ==
    [name |-> "issue/:identifier",
     description |-> "Fetch a single issue by identifier with details and comments",
     handler |-> "issueDetail", schema |-> FALSE]

\* ./my-issues of the linear plugin (imported by paths/index.ts)
myIssuesHandler ==
    [name |-> "my-issues",
     description |-> "Fetch all issues assigned to the authenticated user",
     handler |-> "myIssues", schema |-> FALSE]

\* the descriptor of the test's mock plugin: a synchronous res.json
mockMyIssuesHandler ==
    [name |-> "my-issues", description |-> "Fetch assigned issues",
     handler |-> "mockMyIssues", schema |-> FALSE]

\* a descriptor that declares a schema for its query parameters
filteredIssuesHandler ==
    [name |-> "my-issues", description |-> "Fetch assigned issues, filtered",
     handler |-> "mockMyIssues", schema |-> TRUE]

\* a descriptor declared after another of the same name
shadowedIssuesHandler ==
    [name |-> "my-issues", description |-> "Fetch assigned issues, again",
     handler |-> "shadowed", schema |-> FALSE]

\* export const linearPaths = [myIssuesHandler, issueDetailHandler]
linearPaths == <<myIssuesHandler, issueDetailHandler>>

\* ------------------------------------------------------------ plugin objects
\* Plugin objects are named by identity; two objects may carry the same name.
linearPlugin == [id |-> "linearPlugin", name |-> "linear", paths |-> linearPaths]

mockPlugin == [id |-> "mockPlugin", name |-> "linear", paths |-> <<mockMyIssuesHandler>>]

\* a plugin whose name is the first segment of the introspection route
listPlugin == [id |-> "listPlugin", name |-> "list", paths |-> <<mockMyIssuesHandler>>]

\* a plugin with a validated descriptor and a name declared twice
filteredPlugin ==
    [id |-> "filteredPlugin", name |-> "linear",
     paths |-> <<filteredIssuesHandler, shadowedIssuesHandler>>]

PluginObjs == {linearPlugin, mockPlugin, listPlugin, filteredPlugin}

PluginNames == {p.name : p \in PluginObjs}

\* ------------------------------------------------------------ Map<string, V>
\* A JS Map is a sequence of [key, value] entries in insertion order.
MapIndex(m, k) ==
    IF \E i \in 1..Len(m) : m[i].key = k
    THEN CHOOSE i \in 1..Len(m) : m[i].key = k /\ \A j \in 1..(i - 1) : m[j].key # k
    ELSE 0

MapHas(m, k) == MapIndex(m, k) # 0

MapGet(m, k) == m[MapIndex(m, k)].value

MapSet(m, k, v) ==
    IF MapHas(m, k)
    THEN [m EXCEPT ![MapIndex(m, k)] = [key |-> k, value |-> v]]
    ELSE Append(m, [key |-> k, value |-> v])

MapKeys(m) == [i \in 1..Len(m) |-> m[i].key]

\* an optional value: plugins.get(name) may be undefined
None == <<>>

Some(v) == <<v>>

\* --------------------------------------------------------------- requests
\* The requests the server is handling at one time.  They are interchangeable:
\* a new request takes the first one that is free.
Reqs == {1, 2}

Identifiers == {"PROJ-123", "ENG-1"}

\* a segment whose percent-encoding decodeURIComponent rejects
Malformed == "%E0%A4%A"

\* The URL paths clients send, as their decoded segments.
URLs ==
    {<<"health">>, <<"items">>, <<"ghost">>}
    \cup {<<"linear", p>> : p \in {"my-issues", "nope", "issue/:identifier"}}
    \cup {<<"list", p>> : p \in {"linear", "ghost", "my-issues"}}
    \cup {<<"ghost", "my-issues">>, <<"items", "my-issues">>, <<"linear", Malformed>>}
    \cup {<<"linear", "issue", x>> : x \in Identifiers}

NoResponse == [by |-> "none"]

NoParams == [app |-> Undefined, path |-> Undefined, identifier |-> Undefined]

IdleReq ==
    [pc |-> "idle", url |-> <<>>, route |-> "none", params |-> NoParams,
     handler |-> "none", handlerIdx |-> 0, handlerCalls |-> 0, initCalls |-> 0,
     validation |-> "skipped", threw |-> "nothing", thrown |-> None,
     forwarded |-> <<>>,
     response |-> NoResponse]

\* --------------------------------------------------------- apps directory
\* An entry of the apps directory: whether it is a directory, which index
\* files it holds, whether requiring the index module throws, and the module's
\* exports in key order.  A key is its words, the last one deciding
\* key.endsWith('Plugin'); a value is None (undefined) or Some(plugin).
Entry(name, isDirectory, indexTs, indexJs, load, exports) ==
    [name |-> name, isDirectory |-> isDirectory, indexTs |-> indexTs,
     indexJs |-> indexJs, load |-> load, exports |-> exports]

Export(key, value) == [key |-> key, value |-> value]

AppsDirEntries ==
    {Entry("README.md", FALSE, FALSE, FALSE, "ok", <<>>),
     Entry("drafts", TRUE, FALSE, FALSE, "ok", <<>>),
     Entry("broken", TRUE, TRUE, FALSE, "throws",
           <<Export(<<"linear", "Plugin">>, Some(linearPlugin))>>),
     Entry("shared", TRUE, FALSE, TRUE, "ok",
           <<Export(<<"Plugin", "Helper">>, Some(listPlugin))>>),
     Entry("legacy", TRUE, TRUE, TRUE, "ok",
           <<Export(<<"legacy", "Plugin">>, None),
             Export(<<"list", "Plugin">>, Some(listPlugin))>>),
     Entry("linear", TRUE, TRUE, FALSE, "ok",
           <<Export(<<"linear", "Plugin">>, Some(linearPlugin))>>),
     Entry("mock", TRUE, FALSE, TRUE, "ok",
           <<Export(<<"create", "Mock">>, None),
             Export(<<"mock", "Plugin">>, Some(mockPlugin)),
             Export(<<"filtered", "Plugin">>, Some(filteredPlugin))>>),
     Entry("filtered", TRUE, TRUE, FALSE, "ok",
           <<Export(<<"filtered", "Plugin">>, Some(filteredPlugin))>>),
     Entry("list", TRUE, TRUE, FALSE, "ok",
           <<Export(<<"list", "Plugin">>, Some(listPlugin))>>)}

\* discoverPlugins between two iterations, or before and after its loop
NoIteration(status) ==
    [status |-> status, entry |-> "", required |-> FALSE, passed |-> <<>>,
     caught |-> FALSE, failedBefore |-> FALSE]

\* ------------------------------------------------------------------ state
VARIABLES
    phase,        \* "startup" until createApp has mounted the router, then "serving"
    NODE_ENV,     \* process.env.NODE_ENV
    plugins,      \* PluginRegistry.plugins: Map<string, AppPlugin>
    initialized,  \* PluginRegistry.initialized: Set<string>
    firstPassed,  \* history: per name, the first plugin object passed to registerPlugin
    collided,     \* history: the names passed to registerPlugin more than once
    initCalls,    \* history: invocations of initialize, per plugin name
    initOk,       \* history: names whose initialize has completed without error
    initFailed,   \* history: names whose initialize has thrown
    discovery,    \* the call of discoverPlugins: its status and its last iteration
    req           \* the requests in flight and their outcomes

vars == <<phase, NODE_ENV, plugins, initialized, firstPassed, collided, initCalls,
          initOk, initFailed, discovery, req>>

registryVars == <<plugins, initialized>>

historyVars == <<firstPassed, collided, initCalls, initOk, initFailed>>

Init ==
    /\ phase = "startup"
    /\ NODE_ENV \in {"production", "development"}
    /\ plugins = <<>>
    /\ initialized = {}
    /\ firstPassed = [n \in PluginNames |-> "none"]
    /\ collided = {}
    /\ initCalls = [n \in PluginNames |-> 0]
    /\ initOk = {}
    /\ initFailed = {}
    /\ discovery = NoIteration("idle")
    /\ req = [r \in Reqs |-> IdleReq]

\* --------------------------------------------------------- PluginRegistry
\* registerPlugin without the has() guard of line 20: a later plugin replaces
\* the entry of its name
registerPlugin_overwrites(plugin) ==
    /\ firstPassed' = IF firstPassed[plugin.name] = "none"
                      THEN [firstPassed EXCEPT ![plugin.name] = plugin.id]
                      ELSE firstPassed
    /\ collided' = IF firstPassed[plugin.name] = "none"
                   THEN collided
                   ELSE collided \cup {plugin.name}
    /\ plugins' = MapSet(plugins, plugin.name, plugin)
    /\ UNCHANGED <<phase, NODE_ENV, initialized, initCalls, initOk, initFailed, req>>

\* registerPlugin(plugin): first registration of a name wins
registerPlugin(plugin) ==
    /\ firstPassed' = IF firstPassed[plugin.name] = "none"
                      THEN [firstPassed EXCEPT ![plugin.name] = plugin.id]
                      ELSE firstPassed
    /\ collided' = IF firstPassed[plugin.name] = "none"
                   THEN collided
                   ELSE collided \cup {plugin.name}
    /\ IF MapHas(plugins, plugin.name)
       THEN plugins' = plugins
       ELSE plugins' = MapSet(plugins, plugin.name, plugin)
    /\ UNCHANGED <<phase, NODE_ENV, initialized, initCalls, initOk, initFailed, req>>

\* key.endsWith('Plugin')
EndsWithPlugin(key) == key[Len(key)] = "Plugin"

\* Object.keys(pluginModule).find((key) => key.endsWith('Plugin')), as an
\* index into the exports (0: undefined)
discoverPlugins_pluginExport(exports) ==
    IF \E i \in 1..Len(exports) : EndsWithPlugin(exports[i].key)
    THEN CHOOSE i \in 1..Len(exports) :
            /\ EndsWithPlugin(exports[i].key)
            /\ \A j \in 1..(i - 1) : ~EndsWithPlugin(exports[j].key)
    ELSE 0

\* a loader that registers every export whose key ends in 'Plugin'
discoverPlugins_selected_all(exports) ==
    LET hits == SelectSeq(exports,
                          LAMBDA x : EndsWithPlugin(x.key) /\ x.value # None)
    IN  [i \in 1..Len(hits) |-> hits[i].value[1]]

\* discoverPlugins, lines 90-96: the plugins one module gives to
\* registerPlugin, the value of its first *Plugin export when there is one
discoverPlugins_selected(exports) ==
    LET i == discoverPlugins_pluginExport(exports)
    IN  IF i # 0 /\ exports[i].value # None THEN <<exports[i].value[1]>> ELSE <<>>

\* a loop without the try/catch of lines 87-104: the failure of one module
\* ends discoverPlugins
discoverPlugins_afterThrow_rethrows == "failed"

\* discoverPlugins, lines 102-104: the failure is logged and the loop goes on
discoverPlugins_afterThrow == "loop"

\* discovery that is run again while requests are served
discoverPlugins_running_perRequest ==
    discovery.status \in {"idle", "loop", "returned"}

\* createApp awaits discoverPlugins once, before it mounts the router
discoverPlugins_running ==
    phase = "startup" /\ discovery.status \in {"idle", "loop"}

\* discoverPlugins, lines 64-67: the apps directory does not exist
DiscoverMissing ==
    /\ phase = "startup"
    /\ discovery.status = "idle"
    /\ discovery' = NoIteration("missing")
    /\ UNCHANGED <<phase, NODE_ENV, registryVars, historyVars, req>>

\* discoverPlugins, lines 71-105: one iteration of the loop, for entry e
DiscoverEntry(e) ==
    /\ discoverPlugins_running
    /\ LET pluginPath == IF e.indexTs THEN "index.ts"
                         ELSE IF e.indexJs THEN "index.js" ELSE "null"
           required == e.isDirectory /\ pluginPath # "null"
           threw == required /\ e.load = "throws"
           selected == IF required /\ ~threw
                       THEN discoverPlugins_selected(e.exports)
                       ELSE <<>>
       IN  /\ discovery' =
                 [status |-> IF threw THEN discoverPlugins_afterThrow ELSE "loop",
                  entry |-> e.name, required |-> required,
                  passed |-> [i \in 1..Len(selected) |-> selected[i].id],
                  caught |-> threw,
                  failedBefore |-> discovery.failedBefore \/ discovery.caught]
           /\ IF selected = <<>>
              THEN UNCHANGED <<phase, NODE_ENV, registryVars, historyVars, req>>
              ELSE registerPlugin(selected[1])

\* getPlugin, line 35: const plugin = this.plugins.get(name)
getPlugin_lookup(name) ==
    IF MapHas(plugins, name) THEN Some(MapGet(plugins, name)) ELSE None

\* getPlugin that takes every registered plugin for initialized
getPlugin_mustInitialize_never(name) == FALSE

\* getPlugin without the initialized guard: every resolution initializes
getPlugin_mustInitialize_always(name) == TRUE

\* getPlugin, line 38: if (!this.initialized.has(name))
getPlugin_mustInitialize(name) == name \notin initialized

\* getPlugin that forgets line 41
getPlugin_afterInitialize_forgets(name) == initialized

\* getPlugin, line 41, after initialize has returned: this.initialized.add(name)
getPlugin_afterInitialize(name) == initialized \cup {name}

\* a failed initialize that takes the plugin's name out of the initialized set
getPlugin_afterThrow_resets(name) == initialized \ {name}

\* getPlugin that marks the plugin in a finally block, also when initialize threw
getPlugin_afterThrow_marks(name) == initialized \cup {name}

\* getPlugin when initialize has thrown: the await rethrows, line 41 is skipped
getPlugin_afterThrow(name) == initialized

\* getAllPlugins listing only the plugins that are ready to serve
getAllPlugins_initializedOnly ==
    SelectSeq(MapKeys(plugins), LAMBDA k : k \in initialized)

\* getAllPlugins(): Array.from(this.plugins.keys())
getAllPlugins == MapKeys(plugins)

\* the registry as getAllPlugins() leaves it: the method assigns nothing
getAllPlugins_registry == [plugins |-> plugins, initialized |-> initialized]

\* getPluginPaths answering only for plugins that have been initialized
getPluginPaths_initializedOnly(name) ==
    IF MapHas(plugins, name) /\ name \in initialized
    THEN Some(MapGet(plugins, name).paths)
    ELSE None

\* getPluginPaths(name): this.plugins.get(name)?.paths
getPluginPaths(name) ==
    IF MapHas(plugins, name) THEN Some(MapGet(plugins, name).paths) ELSE None

\* getPluginPaths that resolves the plugin as getPlugin does and marks it
getPluginPaths_registry_marks(name) ==
    [plugins |-> plugins,
     initialized |-> IF MapHas(plugins, name) THEN initialized \cup {name}
                     ELSE initialized]

\* the registry as getPluginPaths(name) leaves it: the method assigns nothing
getPluginPaths_registry(name) == [plugins |-> plugins, initialized |-> initialized]

\* createApp: discoverPlugins has returned (its result is logged with
\* getAllPlugins()), the router and the error handler are mounted
Mount ==
    /\ phase = "startup"
    /\ discovery.status # "failed"
    /\ phase' = "serving"
    /\ discovery' = NoIteration(IF discovery.status = "missing" THEN "missing"
                                ELSE "returned")
    /\ plugins' = getAllPlugins_registry.plugins
    /\ initialized' = getAllPlugins_registry.initialized
    /\ UNCHANGED <<NODE_ENV, historyVars, req>>

\* ------------------------------------------------------------ errorHandler
\* req.params as the terminal stage sees it.  The routes' parameters belong to
\* the router that createApp mounts with app.use('/', createRouter()); when an
\* error leaves that router Express restores the request's outer params, and
\* the layer of app.use(errorHandler) has none of its own.
paramsAtErrorHandler(params) == NoParams

\* a status taken from whatever statusCode field the error carries
errorHandler_statusCode_ducktyped(err) ==
    IF "statusCode" \in DOMAIN err THEN err.statusCode ELSE 500

\* errorHandler, line 19: err instanceof AppError ? err.statusCode : 500
errorHandler_statusCode(err) ==
    IF InstanceOfAppError(err) THEN err.statusCode ELSE 500

\* a message that is passed on in every mode
errorHandler_message_verbatim(err, statusCode) == err.message

\* errorHandler, lines 38-40: the error field of the response
errorHandler_message(err, statusCode) ==
    LET isProduction == NODE_ENV = "production"
    IN  IF isProduction /\ statusCode >= 500
        THEN <<"Internal server error">>
        ELSE err.message

\* middleware/errorHandler.ts, the response it writes for err
errorHandler(err, params) ==
    LET statusCode == errorHandler_statusCode(err)
        app == IF InstanceOfPluginError(err) THEN err.pluginName ELSE params.app
        path == params.path
        error == errorHandler_message(err, statusCode)
        base == [error |-> error, statusCode |-> statusCode, timestamp |-> "ISO-8601"]
        withApp == [error |-> error, statusCode |-> statusCode, timestamp |-> "ISO-8601",
                    app |-> app]
        withPath == [error |-> error, statusCode |-> statusCode, timestamp |-> "ISO-8601",
                     path |-> path]
        withBoth == [error |-> error, statusCode |-> statusCode, timestamp |-> "ISO-8601",
                     app |-> app, path |-> path]
    IN  [by |-> "errorHandler", status |-> statusCode,
         body |-> IF Truthy(app)
                  THEN (IF Truthy(path) THEN withBoth ELSE withApp)
                  ELSE (IF Truthy(path) THEN withPath ELSE base)]

\* next(err): Express hands err to the error-handling middleware mounted last
Forward(q, err) ==
    [q EXCEPT !.pc = "done",
              !.forwarded = Append(@, err),
              !.response = IF q.response = NoResponse
                           THEN errorHandler(err, paramsAtErrorHandler(q.params))
                           ELSE @]

\* a router that declares GET /:app/:path before GET /list/:app
MatchRoute_executeFirst(url) ==
    IF url = <<"health">> THEN "health"
    ELSE IF url = <<"items">> THEN "items"
    ELSE IF Len(url) = 2 THEN "execute"
    ELSE "unmatched"

\* ----------------------------------------------------------------- router
\* The route Express picks for a GET: app.get('/health') is registered before
\* the router, whose routes are tried in the order createRouter adds them.
\* ':app' and ':path' match one segment each.
MatchRoute(url) ==
    IF url = <<"health">> THEN "health"
    ELSE IF url = <<"items">> THEN "items"
    ELSE IF Len(url) = 2 /\ url[1] = "list" THEN "list"
    ELSE IF Len(url) = 2 THEN "execute"
    ELSE "unmatched"

\* `App "${app}" not found`
AppNotFoundMessage(app) == <<"App \"", app, "\" not found">>

\* `Path "${pathName}" not found in app "${app}"`
PathNotFoundMessage(pathName, app) ==
    <<"Path \"", pathName, "\" not found in app \"", app, "\"">>

\* the execute route reporting an unknown app as a path its plugin lacks
executeAppNotFound_asPath(app) ==
    PluginError(app, <<"Path not found in app \"", app, "\"">>, 404)

\* what the execute route would forward had getPlugin thrown for the name
executeAppNotFound_fromThrow(app) ==
    PluginError(app, <<"Handler error: ", "Plugin not registered">>, 500)

\* the execute route, lines 63-65: the error for a plugin that does not exist
executeAppNotFound(app) == AppError(AppNotFoundMessage(app), 404)

\* a lookup in which the descriptor declared last wins
FindPath_last(paths, pathName) ==
    IF \E i \in 1..Len(paths) : paths[i].name = pathName
    THEN CHOOSE i \in 1..Len(paths) :
            /\ paths[i].name = pathName
            /\ \A j \in (i + 1)..Len(paths) : paths[j].name # pathName
    ELSE 0

\* plugin.paths.find((p) => p.name === pathName), as an index (0: undefined)
FindPath(paths, pathName) ==
    IF \E i \in 1..Len(paths) : paths[i].name = pathName
    THEN CHOOSE i \in 1..Len(paths) :
            /\ paths[i].name = pathName
            /\ \A j \in 1..(i - 1) : paths[j].name # pathName
    ELSE 0

\* a catch block that wraps every failure, errors of the taxonomy included
RouteCatch_wrapsAll(app, err) ==
    PluginError(app,
                <<"Handler error: ">>
                   \o (IF InstanceOfError(err) THEN err.message
                       ELSE <<"Unknown error">>),
                500)

\* a catch block that wraps a foreign failure without the plugin's name
RouteCatch_untagged(app, err) ==
    IF InstanceOfAppError(err)
    THEN err
    ELSE AppError(<<"Handler error: ">>
                     \o (IF InstanceOfError(err) THEN err.message
                         ELSE <<"Unknown error">>),
                  500)

\* the catch block of the execute route: the error value it forwards
RouteCatch(app, err) ==
    IF InstanceOfAppError(err)
    THEN err
    ELSE PluginError(app,
                     <<"Handler error: ">>
                        \o (IF InstanceOfError(err) THEN err.message
                            ELSE <<"Unknown error">>),
                     500)

\* a route that calls the handler of the descriptor twice
InvokeHandler_twice(q, idx, d) ==
    [q EXCEPT !.handler = d.handler, !.handlerIdx = idx,
              !.handlerCalls = @ + 2, !.pc = "handler"]

\* What the handlers do up to their first suspension.
\*   mockMyIssues  the test's handler: res.json(...) and return
\*   issueDetail   issueDetailHandler.handler: 400 by itself when req.params has
\*                 no identifier, otherwise await fetchIssueByIdentifier
\*   myIssues      the linear plugin's my-issues handler: awaits the upstream
InvokeHandler(q, idx, d) ==
    LET q1 == [q EXCEPT !.handler = d.handler, !.handlerIdx = idx,
                        !.handlerCalls = @ + 1]
    IN  IF d.handler = "mockMyIssues"
        THEN [q1 EXCEPT !.pc = "done",
                        !.response = [by |-> "handler", status |-> 200,
                                      body |-> [app |-> "linear", path |-> "my-issues"]]]
        ELSE IF d.handler = "issueDetail" /\ ~Truthy(q.params.identifier)
        THEN [q1 EXCEPT !.pc = "done",
                        !.response = [by |-> "handler", status |-> 400,
                                      body |-> [error |-> <<"Issue identifier is required">>,
                                                statusCode |-> 400,
                                                timestamp |-> "ISO-8601"]]]
        ELSE [q1 EXCEPT !.pc = "handler"]

\* a route that, the plugin resolved, awaits its initialization once more
\* instead of going on to the descriptor
Dispatch_resolvesAgain(q, plugin, queryOk) == [q EXCEPT !.pc = "initialize"]

\* the execute route validating the query whether or not a schema is declared
Dispatch_validatesWithoutSchema(q, plugin, queryOk) ==
    LET app == q.params.app
        pathName == q.params.path
        idx == FindPath(plugin.paths, pathName)
    IN  IF idx = 0
        THEN Forward(q, PluginError(app, PathNotFoundMessage(pathName, app), 404))
        ELSE IF ~queryOk
        THEN Forward([q EXCEPT !.validation = "failure"],
                     AppError(<<"Invalid parameters: ", "issues">>, 400))
        ELSE InvokeHandler([q EXCEPT !.validation = "success"], idx, plugin.paths[idx])

\* the execute route without the return of line 83: the failed validation is
\* forwarded and the handler runs all the same
Dispatch_invokesAfterFailure(q, plugin, queryOk) ==
    LET app == q.params.app
        pathName == q.params.path
        idx == FindPath(plugin.paths, pathName)
    IN  IF idx = 0
        THEN Forward(q, PluginError(app, PathNotFoundMessage(pathName, app), 404))
        ELSE IF ~plugin.paths[idx].schema
        THEN InvokeHandler(q, idx, plugin.paths[idx])
        ELSE IF ~queryOk
        THEN InvokeHandler(Forward([q EXCEPT !.validation = "failure"],
                                   AppError(<<"Invalid parameters: ", "issues">>, 400)),
                           idx, plugin.paths[idx])
        ELSE InvokeHandler([q EXCEPT !.validation = "success"], idx, plugin.paths[idx])

\* The execute route once getPlugin has returned the plugin: find the
\* descriptor, validate the query (schema.safeParse(req.query) succeeds or
\* not: queryOk), invoke the handler.
Dispatch(q, plugin, queryOk) ==
    LET app == q.params.app
        pathName == q.params.path
        idx == FindPath(plugin.paths, pathName)
    IN  IF idx = 0
        THEN Forward(q, PluginError(app, PathNotFoundMessage(pathName, app), 404))
        ELSE IF ~plugin.paths[idx].schema
        THEN InvokeHandler(q, idx, plugin.paths[idx])
        ELSE IF ~queryOk
        THEN Forward([q EXCEPT !.validation = "failure"],
                     AppError(<<"Invalid parameters: ", "issues">>, 400))
        ELSE InvokeHandler([q EXCEPT !.validation = "success"], idx, plugin.paths[idx])

\* a connection is free for a new request
Free(r) ==
    /\ phase = "serving"
    /\ req[r].pc \in {"idle", "done"}
    /\ \A o \in Reqs : o < r => req[o].pc \notin {"idle", "done"}

\* The request q takes the place of r, on its arrival or when it resumes;
\* what is kept of the requests answered before this step is dropped, so that
\* req holds the requests in flight and the outcome of the latest step.
Admit(r, q) ==
    [o \in Reqs |-> IF o = r THEN q
                    ELSE IF req[o].pc = "done" THEN IdleReq
                    ELSE req[o]]

NewReq(url, route, params) ==
    [IdleReq EXCEPT !.url = url, !.route = route, !.params = params]

\* GET /health, answered by createApp's own route
HealthRequest(r) ==
    /\ Free(r)
    /\ req' = Admit(r,
                 [NewReq(<<"health">>, "health", NoParams) EXCEPT
                    !.pc = "done",
                    !.response = [by |-> "health", status |-> 200,
                                  body |-> [status |-> "ok"]]])
    /\ UNCHANGED <<phase, discovery, NODE_ENV, registryVars, historyVars>>

\* GET /items
ItemsRequest(r) ==
    /\ Free(r)
    /\ LET apps == getAllPlugins
       IN  req' = Admit(r,
                     [NewReq(<<"items">>, "items", NoParams) EXCEPT
                        !.pc = "done",
                        !.response = [by |-> "route", status |-> 200,
                                      body |-> [apps |-> apps, count |-> Len(apps)]]])
    /\ plugins' = getAllPlugins_registry.plugins
    /\ initialized' = getAllPlugins_registry.initialized
    /\ UNCHANGED <<phase, discovery, NODE_ENV, historyVars>>

\* GET /list/:app
ListRequest(r, url) ==
    /\ Free(r)
    /\ MatchRoute(url) = "list"
    /\ url[2] # Malformed
    /\ LET app == url[2]
           paths == getPluginPaths(app)
           q == NewReq(url, "list", [NoParams EXCEPT !.app = app])
       IN  req' = Admit(r,
                     IF paths = None
                     THEN Forward(q, AppError(AppNotFoundMessage(app), 404))
                     ELSE [q EXCEPT
                             !.pc = "done",
                             !.response =
                                [by |-> "route", status |-> 200,
                                 body |-> [app |-> app,
                                           paths |-> [i \in 1..Len(paths[1]) |->
                                                        [name |-> paths[1][i].name,
                                                         description |-> paths[1][i].description]],
                                           count |-> Len(paths[1])]]])
    /\ plugins' = getPluginPaths_registry(url[2]).plugins
    /\ initialized' = getPluginPaths_registry(url[2]).initialized
    /\ UNCHANGED <<phase, discovery, NODE_ENV, historyVars>>

\* a GET that no route matches: Express answers 404 itself, no error is forwarded
UnmatchedRequest(r, url) ==
    /\ Free(r)
    /\ MatchRoute(url) = "unmatched"
    /\ req' = Admit(r,
                 [NewReq(url, "unmatched", NoParams) EXCEPT
                    !.pc = "done",
                    !.response = [by |-> "finalhandler", status |-> 404,
                                  body |-> [html |-> "Cannot GET"]]])
    /\ UNCHANGED <<phase, discovery, NODE_ENV, registryVars, historyVars>>

\* a GET whose route parameter cannot be decoded: the route matches, Express
\* fails to decode the parameter and passes its URIError to the error handler;
\* the route's own function never runs
MalformedRequest(r, url) ==
    /\ Free(r)
    /\ MatchRoute(url) \in {"list", "execute"}
    /\ url[2] = Malformed
    /\ req' = Admit(r,
                 Forward(NewReq(url, "malformed", NoParams),
                         URIError(<<"Failed to decode param '", url[2], "'">>)))
    /\ UNCHANGED <<phase, discovery, NODE_ENV, registryVars, historyVars>>

\* What initialize and the handlers may throw.
InitThrowables ==
    {PlainError(<<"Linear config validation failed">>),
     ApiError(<<"Linear client not initialized">>, 500),
     ApiError(<<"Linear API key rejected">>, 401)}

HandlerThrowables ==
    {PlainError(<<"boom">>),
     ApiError(<<"Failed to fetch issues from Linear">>, 502),
     NonErrorValue}

\* GET /:app/:path, from the request's arrival to the first suspension:
\* getPlugin(app) looks the plugin up and, when the name is not in the
\* initialized set, invokes plugin.initialize() and awaits it.
ExecuteRequest(r, url) ==
    /\ Free(r)
    /\ MatchRoute(url) = "execute"
    /\ url[2] # Malformed
    /\ LET app == url[1]
           q == NewReq(url, "execute", [NoParams EXCEPT !.app = app, !.path = url[2]])
           plugin == getPlugin_lookup(app)
       IN  \/ /\ plugin = None
              /\ req' = Admit(r, Forward(q, executeAppNotFound(app)))
              /\ UNCHANGED initCalls
           \/ /\ plugin # None
              /\ getPlugin_mustInitialize(app)
              /\ initCalls[app] < MaxInitCalls
              /\ initCalls' = [initCalls EXCEPT ![app] = @ + 1]
              /\ req' = Admit(r, [q EXCEPT !.pc = "initialize", !.initCalls = 1])
           \/ /\ plugin # None
              /\ ~getPlugin_mustInitialize(app)
              /\ \E queryOk \in BOOLEAN :
                    req' = Admit(r, Dispatch(q, plugin[1], queryOk))
              /\ UNCHANGED initCalls
    /\ UNCHANGED <<phase, discovery, NODE_ENV, registryVars, firstPassed, collided, initOk, initFailed>>

\* plugin.initialize() has returned: getPlugin marks the plugin initialized and
\* returns it, and the route goes on to the descriptor.
InitializeReturns(r) ==
    /\ req[r].pc = "initialize"
    /\ LET app == req[r].params.app
       IN  /\ initialized' = getPlugin_afterInitialize(app)
           /\ initOk' = initOk \cup {app}
           /\ \E queryOk \in BOOLEAN :
                 req' = Admit(r, Dispatch(req[r], MapGet(plugins, app), queryOk))
    /\ UNCHANGED <<phase, discovery, NODE_ENV, plugins, firstPassed, collided, initCalls, initFailed>>

\* plugin.initialize() has thrown: getPlugin rethrows into the route's catch
InitializeThrows(r, err) ==
    /\ req[r].pc = "initialize"
    /\ LET app == req[r].params.app
       IN  /\ initialized' = getPlugin_afterThrow(app)
           /\ initFailed' = initFailed \cup {app}
           /\ req' = Admit(r, Forward([req[r] EXCEPT !.threw = "initialize",
                                                       !.thrown = Some(err)],
                                      RouteCatch(app, err)))
    /\ UNCHANGED <<phase, discovery, NODE_ENV, plugins, firstPassed, collided, initCalls, initOk>>

\* the awaited handler has returned, having written its response
HandlerReturns(r) ==
    /\ req[r].pc = "handler"
    /\ req' = Admit(r,
                 [req[r] EXCEPT
                    !.pc = "done",
                    !.response = [by |-> "handler", status |-> 200,
                                  body |-> [app |-> "linear", path |-> "my-issues"]]])
    /\ UNCHANGED <<phase, discovery, NODE_ENV, registryVars, historyVars>>

\* the awaited handler has thrown: the route's catch forwards one error
HandlerThrows(r, err) ==
    /\ req[r].pc = "handler"
    /\ req' = Admit(r, Forward([req[r] EXCEPT !.threw = "handler", !.thrown = Some(err)],
                               RouteCatch(req[r].params.app, err)))
    /\ UNCHANGED <<phase, discovery, NODE_ENV, registryVars, historyVars>>

\* ---------------------------------------------------------- specification
Next ==
    \/ DiscoverMissing
    \/ \E e \in AppsDirEntries : DiscoverEntry(e)
    \/ Mount
    \/ \E r \in Reqs : HealthRequest(r)
    \/ \E r \in Reqs : ItemsRequest(r)
    \/ \E r \in Reqs, url \in URLs : ListRequest(r, url)
    \/ \E r \in Reqs, url \in URLs : UnmatchedRequest(r, url)
    \/ \E r \in Reqs, url \in URLs : MalformedRequest(r, url)
    \/ \E r \in Reqs, url \in URLs : ExecuteRequest(r, url)
    \/ \E r \in Reqs : InitializeReturns(r)
    \/ \E r \in Reqs, err \in InitThrowables : InitializeThrows(r, err)
    \/ \E r \in Reqs : HandlerReturns(r)
    \/ \E r \in Reqs, err \in HandlerThrowables : HandlerThrows(r, err)

Spec == Init /\ [][Next]_vars

\* Every awaited initialize and every awaited handler settles, by returning
\* or by throwing, and the event loop then resumes the route that awaits it.
Settles(r) ==
    \/ InitializeReturns(r)
    \/ \E err \in InitThrowables : InitializeThrows(r, err)
    \/ HandlerReturns(r)
    \/ \E err \in HandlerThrowables : HandlerThrows(r, err)

\* The directories of the runs in which progress is followed: the ones that hold a plugin named linear,
\* and one whose module throws. The plugin named list is left out: no request
\* reaches the execute route for it.
FairEntries == {e \in AppsDirEntries : e.name \in {"broken", "linear", "mock", "filtered"}}

FairNext ==
    \/ DiscoverMissing
    \/ \E e \in FairEntries : DiscoverEntry(e)
    \/ Mount
    \/ \E r \in Reqs : HealthRequest(r)
    \/ \E r \in Reqs : ItemsRequest(r)
    \/ \E r \in Reqs, url \in URLs : ListRequest(r, url)
    \/ \E r \in Reqs, url \in URLs : UnmatchedRequest(r, url)
    \/ \E r \in Reqs, url \in URLs : MalformedRequest(r, url)
    \/ \E r \in Reqs, url \in URLs : ExecuteRequest(r, url)
    \/ \E r \in Reqs : InitializeReturns(r)
    \/ \E r \in Reqs, err \in InitThrowables : InitializeThrows(r, err)
    \/ \E r \in Reqs : HandlerReturns(r)
    \/ \E r \in Reqs, err \in HandlerThrowables : HandlerThrows(r, err)

FairSpec == Init /\ [][FairNext]_vars /\ \A r \in Reqs : WF_vars(Settles(r))

\* ------------------------------------------------------------------ claims
Done(r) == req[r].pc = "done"

\* a request arrives with this step and is given to the execute route
ArrivesAtExecute(r) ==
    /\ req[r].pc \in {"idle", "done"}
    /\ req'[r] # req[r]
    /\ req'[r].route = "execute"

\* C1: the plugin map holds one entry per name that was ever passed to
\* registerPlugin, and the entry is the object of the first call with that
\* name; a colliding call therefore leaves the map as it was, and no
\* registration touches the initialized set.
C1_FirstRegistrationWins ==
    /\ \A i, j \in 1..Len(plugins) : plugins[i].key = plugins[j].key => i = j
    /\ \A n \in PluginNames : MapHas(plugins, n) <=> firstPassed[n] # "none"
    /\ \A i \in 1..Len(plugins) :
          /\ plugins[i].value.name = plugins[i].key
          /\ plugins[i].value.id = firstPassed[plugins[i].key]
    /\ phase = "startup" => initialized = {}

\* "linear" was passed again after the mock plugin; the entry is still the
\* mock plugin, next to the entry of "list"
C1_Witness ==
    /\ "linear" \in collided
    /\ firstPassed["linear"] = "mockPlugin"
    /\ MapGet(plugins, "linear") = mockPlugin
    /\ Len(plugins) = 2

\* C2: no initialize runs while plugins are being registered; the first
\* resolution of a registered plugin invokes initialize once; a step invokes
\* it at most once; and once a resolution has succeeded, no resolution that
\* starts later invokes it again.
C2_LazyInitialization ==
    [][/\ phase = "startup" => \A n \in PluginNames : initCalls'[n] = 0
       /\ \A n \in PluginNames :
             /\ initCalls'[n] \in {initCalls[n], initCalls[n] + 1}
             /\ n \in initOk => initCalls'[n] = initCalls[n]
       /\ \A r \in Reqs :
             ArrivesAtExecute(r) =>
                LET n == req'[r].params.app
                IN  /\ (MapHas(plugins, n) /\ initCalls[n] = 0)
                          => (initCalls'[n] = 1 /\ req'[r].initCalls = 1)
                    /\ (n \in PluginNames /\ n \in initOk)
                          => (req'[r].initCalls = 0 /\ initCalls' = initCalls)
      ]_vars

\* a second resolution of an initialized plugin reached the handler without
\* running initialize, which has run once in all
C2_Witness ==
    /\ initCalls["linear"] = 1
    /\ "linear" \in initialized
    /\ \E r \in Reqs :
          /\ Done(r)
          /\ req[r].url = <<"linear", "my-issues">>
          /\ req[r].initCalls = 0
          /\ req[r].handlerCalls = 1

\* C3: when initialize throws, the request that resolved the plugin gets the
\* failure (one error forwarded, no handler run), the step leaves the
\* initialized set as it was, and a resolution of a registered name that is
\* not in the initialized set invokes initialize again.
C3_InitFailureRetries ==
    [][\A r \in Reqs :
          /\ (req'[r].threw = "initialize" /\ req[r].threw # "initialize")
                => /\ initialized' = initialized
                   /\ Len(req'[r].forwarded) = 1
                   /\ req'[r].handlerCalls = 0
                   /\ req'[r].response.by = "errorHandler"
          /\ (/\ ArrivesAtExecute(r)
              /\ MapHas(plugins, req'[r].params.app)
              /\ req'[r].params.app \in initFailed
              /\ req'[r].params.app \notin initOk)
                => /\ req'[r].initCalls = 1
                   /\ req'[r].pc = "initialize"
                   /\ initCalls'[req'[r].params.app] = initCalls[req'[r].params.app] + 1
      ]_vars

\* initialize threw for one request, and a later request is initializing again
C3_Witness ==
    /\ "linear" \in initFailed
    /\ "linear" \notin initialized
    /\ initCalls["linear"] = 2
    /\ \E r \in Reqs : req[r].pc = "initialize" /\ req[r].params.app = "linear"
    /\ \A r \in Reqs : req[r].pc # "initialize" => req[r] = IdleReq \/ req[r].threw = "initialize"

\* C4 (as claimed): while initialize has never failed, it is invoked at most
\* once per plugin, whatever the interleaving of the resolutions.
C4_SingleFlight ==
    \A n \in PluginNames : n \notin initFailed => initCalls[n] <= 1

\* C5: a name is in the initialized set exactly when an initialize of that
\* plugin has returned without error.
C5_InitializedIffCompleted ==
    \A n \in PluginNames : n \in initialized <=> n \in initOk

\* one initialize of the plugin threw and another returned: the name is in
\* the set
C5_Witness ==
    /\ "linear" \in initFailed
    /\ "linear" \in initOk
    /\ "linear" \in initialized
    /\ "list" \notin initialized

\* The segments of a descriptor name read as a route pattern.
PatternSegments(name) ==
    IF name = "issue/:identifier" THEN <<"issue", ":identifier">> ELSE <<name>>

Placeholders == {":identifier"}

Parameterless(name) == \A i \in 1..Len(PatternSegments(name)) :
                          PatternSegments(name)[i] \notin Placeholders

\* the pattern /{app}/{descriptor.name} matches the segments after the app
PatternMatches(name, segs) ==
    /\ Len(segs) = Len(PatternSegments(name))
    /\ \A i \in 1..Len(segs) :
          PatternSegments(name)[i] \in Placeholders \/ PatternSegments(name)[i] = segs[i]

Declares(plugin, name) == FindPath(plugin.paths, name) # 0

\* C6 (as claimed): for a registered plugin that declares my-issues and
\* issue/:identifier, and whose resolution did not fail, GET /app/my-issues
\* reaches the first descriptor's handler and GET /app/issue/X reaches the
\* second one's with identifier = X.
C6_ParameterizedRouteServed ==
    \A r \in Reqs :
       (/\ Done(r)
        /\ Len(req[r].url) >= 2
        /\ MapHas(plugins, req[r].url[1])
        /\ Declares(MapGet(plugins, req[r].url[1]), "my-issues")
        /\ Declares(MapGet(plugins, req[r].url[1]), "issue/:identifier")
        /\ req[r].threw # "initialize")
       => LET paths == MapGet(plugins, req[r].url[1]).paths
              url == req[r].url
          IN  /\ Tail(url) = <<"my-issues">>
                    => /\ req[r].handlerCalls = 1
                       /\ req[r].handlerIdx = FindPath(paths, "my-issues")
              /\ (Len(url) = 3 /\ url[2] = "issue")
                    => /\ req[r].handlerCalls = 1
                       /\ req[r].handlerIdx = FindPath(paths, "issue/:identifier")
                       /\ req[r].params.identifier = url[3]

MatchesRegisteredCombination(url) ==
    /\ Len(url) >= 2
    /\ MapHas(plugins, url[1])
    /\ \E i \in 1..Len(MapGet(plugins, url[1]).paths) :
          PatternMatches(MapGet(plugins, url[1]).paths[i].name, Tail(url))

IsAppNotFound(err, app) == err = AppError(AppNotFoundMessage(app), 404)

IsPathNotFound(err, app) ==
    /\ InstanceOfPluginError(err)
    /\ err.statusCode = 404
    /\ err.pluginName = app

\* C7 (as claimed): a GET that is not /items, /list/{app} or /health and
\* matches no registered plugin/descriptor combination ends with exactly one
\* error forwarded to the terminal stage, app-not-found when the plugin name
\* is unknown and path-not-found when it is known.
C7_UnmatchedGetsOneOfTwoErrors ==
    \A r \in Reqs :
       (/\ Done(r)
        /\ req[r].url \notin {<<"items">>, <<"health">>}
        /\ ~(Len(req[r].url) = 2 /\ req[r].url[1] = "list")
        /\ ~MatchesRegisteredCombination(req[r].url))
       => /\ Len(req[r].forwarded) = 1
          /\ req[r].response.by = "errorHandler"
          /\ IF MapHas(plugins, req[r].url[1])
             THEN IsPathNotFound(req[r].forwarded[1], req[r].url[1])
             ELSE IsAppNotFound(req[r].forwarded[1], req[r].url[1])

UnknownAppOutcome(r) ==
    /\ req[r].forwarded = <<AppError(AppNotFoundMessage(req[r].url[1]), 404)>>
    /\ req[r].response.by = "errorHandler"
    /\ req[r].response.status = 404
    /\ req[r].initCalls = 0
    /\ req[r].handlerCalls = 0

\* C8 (as claimed): every GET /{app}/{path}, app and path being segments that
\* decode, whose app is not registered ends with the AppError 404
\* 'App "{app}" not found', no initialize and no handler.
C8_UnknownAppAnyApp ==
    \A r \in Reqs :
       (/\ Done(r)
        /\ Len(req[r].url) = 2
        /\ req[r].url[2] # Malformed
        /\ ~MapHas(plugins, req[r].url[1]))
       => UnknownAppOutcome(r)

\* C8 (amended): every GET /{app}/{path} whose app is not registered and is
\* not "list", the first segment of the list route, ends with the AppError
\* 404 'App "{app}" not found', no initialize and no handler.
C8_UnknownAppNotFound ==
    \A r \in Reqs :
       (/\ Done(r)
        /\ Len(req[r].url) = 2
        /\ req[r].url[2] # Malformed
        /\ req[r].url[1] # "list"
        /\ ~MapHas(plugins, req[r].url[1]))
       => UnknownAppOutcome(r)

\* an unknown app is asked for a path that a registered plugin declares
C8_Witness ==
    /\ MapHas(plugins, "linear")
    /\ \E r \in Reqs :
          /\ Done(r)
          /\ req[r].url = <<"ghost", "my-issues">>
          /\ req[r].forwarded = <<AppError(<<"App \"", "ghost", "\" not found">>, 404)>>

\* C9 (as claimed): a request of the execute route for a registered app and
\* a path the plugin does not declare ends with status 404 and the
\* PluginError 'Path ... not found', whatever the plugin's initialization did.
C9_UnknownPathNotFound ==
    \A r \in Reqs :
       (/\ Done(r)
        /\ req[r].route = "execute"
        /\ MapHas(plugins, req[r].params.app)
        /\ ~Declares(MapGet(plugins, req[r].params.app), req[r].params.path))
       => /\ req[r].response.status = 404
          /\ req[r].forwarded =
                <<PluginError(req[r].params.app,
                              PathNotFoundMessage(req[r].params.path, req[r].params.app),
                              404)>>

\* the request named a registered plugin and one of its parameterless
\* descriptors, the descriptor has no schema or its schema accepted the query,
\* and neither initialize nor the handler threw
PlainDescriptorServed(r) ==
    /\ Done(r)
    /\ Len(req[r].url) = 2
    /\ MapHas(plugins, req[r].url[1])
    /\ Declares(MapGet(plugins, req[r].url[1]), req[r].url[2])
    /\ LET paths == MapGet(plugins, req[r].url[1]).paths
           d == paths[FindPath(paths, req[r].url[2])]
       IN  /\ Parameterless(d.name)
           /\ ~d.schema \/ req[r].validation = "success"
    /\ req[r].threw = "nothing"

HandlerResultOutcome(r) ==
    LET paths == MapGet(plugins, req[r].url[1]).paths
        idx == FindPath(paths, req[r].url[2])
    IN  /\ req[r].handlerCalls = 1
        /\ req[r].handlerIdx = idx
        /\ req[r].handler = paths[idx].handler
        /\ req[r].response.by = "handler"
        /\ req[r].response.status = 200
        /\ req[r].forwarded = <<>>

Matched(r) ==
    /\ req[r].route = "execute"
    /\ req[r].pc \in {"handler", "done"}
    /\ req[r].threw # "initialize"
    /\ MapHas(plugins, req[r].params.app)
    /\ Declares(MapGet(plugins, req[r].params.app), req[r].params.path)

MatchedIdx(r) ==
    FindPath(MapGet(plugins, req[r].params.app).paths, req[r].params.path)

MatchedDescriptor(r) == MapGet(plugins, req[r].params.app).paths[MatchedIdx(r)]

\* C11: when the matched descriptor has a schema and the query fails it, one
\* error of status 400 is forwarded to the terminal stage, which answers 400,
\* and the handler is not invoked; when the matched descriptor has no schema,
\* validation is skipped and that descriptor's handler is invoked.
C11_SchemaValidation ==
    \A r \in Reqs :
       Matched(r) =>
          /\ req[r].validation = "failure"
                => /\ MatchedDescriptor(r).schema
                   /\ Len(req[r].forwarded) = 1
                   /\ InstanceOfAppError(req[r].forwarded[1])
                   /\ req[r].forwarded[1].statusCode = 400
                   /\ req[r].response.by = "errorHandler"
                   /\ req[r].response.status = 400
                   /\ req[r].handlerCalls = 0
                   /\ req[r].handler = "none"
          /\ ~MatchedDescriptor(r).schema
                => /\ req[r].validation = "skipped"
                   /\ req[r].handlerCalls = 1
                   /\ req[r].handlerIdx = MatchedIdx(r)
                   /\ req[r].handler = MatchedDescriptor(r).handler

\* the query of GET /linear/my-issues failed the schema of the descriptor: the
\* request ended with 400 and no handler call
C11_Witness ==
    /\ MapHas(plugins, "linear")
    /\ MapGet(plugins, "linear") = filteredPlugin
    /\ \E r \in Reqs :
          /\ Done(r)
          /\ req[r].url = <<"linear", "my-issues">>
          /\ req[r].validation = "failure"
          /\ req[r].response.status = 400
          /\ req[r].handlerCalls = 0

\* C12 (as claimed): a request whose plugin's initialize failed is answered
\* by the terminal stage with a 5xx status and runs no handler; a name is in
\* the initialized set only after an initialize that succeeded; and a later
\* request to the plugin whose initialize succeeds reaches its handler.
C12_InitFailureConfined ==
    /\ \A r \in Reqs :
          (Done(r) /\ req[r].threw = "initialize")
          => /\ Len(req[r].forwarded) = 1
             /\ req[r].response.by = "errorHandler"
             /\ req[r].response.status \in 500..599
             /\ req[r].handlerCalls = 0
    /\ \A n \in PluginNames : n \in initialized => n \in initOk
    /\ \A r \in Reqs :
          (/\ Matched(r)
           /\ req[r].params.app \in initFailed
           /\ req[r].initCalls = 1
           /\ req[r].validation # "failure")
          => req[r].handlerCalls = 1

\* C13: when a handler throws a value that is not an AppError, the route
\* forwards exactly one error, a PluginError of status 500 whose pluginName is
\* the app segment of the request, and the terminal stage answers the request.
C13_PlainHandlerFailureWrapped ==
    \A r \in Reqs :
       (/\ Done(r)
        /\ req[r].threw = "handler"
        /\ ~InstanceOfAppError(req[r].thrown[1]))
       => /\ Len(req[r].forwarded) = 1
          /\ InstanceOfPluginError(req[r].forwarded[1])
          /\ req[r].forwarded[1].statusCode = 500
          /\ req[r].forwarded[1].pluginName = req[r].url[1]
          /\ req[r].response.by = "errorHandler"
          /\ req[r].response.status = 500

\* the my-issues handler of the linear plugin threw a plain Error
C13_Witness ==
    \E r \in Reqs :
       /\ Done(r)
       /\ req[r].url = <<"linear", "my-issues">>
       /\ req[r].thrown = Some(PlainError(<<"boom">>))
       /\ req[r].threw = "handler"
       /\ req[r].forwarded =
             <<PluginError("linear", <<"Handler error: ", "boom">>, 500)>>

\* a request arrives with this step
Arrives(r) ==
    /\ req[r].pc \in {"idle", "done"}
    /\ req'[r] # req[r]
    /\ req'[r].route # "none"

\* the names that have been passed to registerPlugin
RegisteredNames == {n \in PluginNames : firstPassed[n] # "none"}

\* the plugin object registered under a name
RegisteredPlugin(n) == CHOOSE p \in PluginObjs : p.id = firstPassed[n]

\* C14: whenever GET /items is served, it answers 200 with apps holding each
\* registered plugin name once and count their number, and the step leaves
\* the plugin map and the initialized set as they were.
C14_ItemsListsRegistered ==
    [][\A r \in Reqs :
          (Arrives(r) /\ req'[r].url = <<"items">>)
          => LET body == req'[r].response.body
             IN  /\ req'[r].pc = "done"
                 /\ req'[r].response.status = 200
                 /\ req'[r].forwarded = <<>>
                 /\ {body.apps[i] : i \in 1..Len(body.apps)} = RegisteredNames
                 /\ Len(body.apps) = Cardinality(RegisteredNames)
                 /\ body.count = Cardinality(RegisteredNames)
                 /\ plugins' = plugins
                 /\ initialized' = initialized
      ]_vars

\* GET /items was answered with both registered names while only one of the
\* two plugins is initialized
C14_Witness ==
    /\ initialized = {"linear"}
    /\ \E r \in Reqs :
          /\ Done(r)
          /\ req[r].url = <<"items">>
          /\ req[r].response.body.count = 2
          /\ req[r].response.body.apps = <<"list", "linear">>

\* the message holds the words 'not found'
ContainsNotFound(message) ==
    \E i \in 1..Len(message) :
       message[i] \in {"\" not found", "\" not found in app \""}

\* C15: GET /list/{app} answers 404 with an error holding 'not found'
\* exactly when app is not a registered name; otherwise it answers with app,
\* the {name, description} pairs of the plugin's descriptors in declaration
\* order and their count; in neither case is initialize invoked or the
\* initialized set changed.
C15_ListPaths ==
    [][\A r \in Reqs :
          (Arrives(r) /\ req'[r].route = "list")
          => LET app == req'[r].url[2]
                 resp == req'[r].response
             IN  /\ req'[r].pc = "done"
                 /\ (/\ resp.status = 404
                     /\ resp.by = "errorHandler"
                     /\ ContainsNotFound(resp.body.error))
                       <=> app \notin RegisteredNames
                 /\ app \in RegisteredNames
                       => LET paths == RegisteredPlugin(app).paths
                          IN  /\ resp.status = 200
                              /\ resp.body.app = app
                              /\ resp.body.count = Len(paths)
                              /\ Len(resp.body.paths) = Len(paths)
                              /\ \A i \in 1..Len(paths) :
                                    resp.body.paths[i] =
                                       [name |-> paths[i].name,
                                        description |-> paths[i].description]
                 /\ req'[r].initCalls = 0
                 /\ initCalls' = initCalls
                 /\ initialized' = initialized
      ]_vars

\* the paths of the linear plugin were listed, both descriptors in order,
\* while the plugin has never been initialized
C15_Witness ==
    /\ initCalls["linear"] = 0
    /\ "linear" \notin initialized
    /\ \E r \in Reqs :
          /\ Done(r)
          /\ req[r].url = <<"list", "linear">>
          /\ req[r].response.status = 200
          /\ req[r].response.body.count = 2
          /\ req[r].response.body.paths[2].name = "issue/:identifier"

\* a step in which getAllPlugins or getPluginPaths is called: createApp logs
\* the discovered names, GET /items and GET /list/:app read the registry
CallsRegistryRead ==
    \/ phase = "startup" /\ phase' = "serving"
    \/ \E r \in Reqs : Arrives(r) /\ req'[r].route \in {"items", "list"}

\* C16: a step that calls getAllPlugins or getPluginPaths, for a registered or
\* an unknown name, leaves the plugin map and the initialized set as they were
\* and invokes no initialize.
C16_ReadsDoNotMutate ==
    [][CallsRegistryRead
          => /\ plugins' = plugins
             /\ initialized' = initialized
             /\ initCalls' = initCalls
             /\ initOk' = initOk
             /\ initFailed' = initFailed
             /\ \A r \in Reqs : req'[r].pc # "initialize" \/ req'[r] = req[r]
      ]_vars

\* the paths of a registered plugin that is not initialized were read, and
\* the paths of an unknown name
C16_Witness ==
    /\ MapHas(plugins, "linear")
    /\ initialized = {}
    /\ \E r \in Reqs :
          /\ Done(r)
          /\ req[r].route = "list"
          /\ req[r].url[2] \in {"linear", "ghost"}

\* C17: when the execute route resolves a name that is not registered,
\* getPlugin returns undefined: nothing is thrown (the route takes its
\* `!plugin` branch), no initialize is invoked, and the plugin map and the
\* initialized set stay as they were.
C17_UnknownNameAbsent ==
    [][\A r \in Reqs :
          (ArrivesAtExecute(r) /\ ~MapHas(plugins, req'[r].params.app))
          => /\ req'[r].threw = "nothing"
             /\ req'[r].thrown = None
             /\ req'[r].forwarded = <<AppError(AppNotFoundMessage(req'[r].params.app), 404)>>
             /\ req'[r].initCalls = 0
             /\ initCalls' = initCalls
             /\ plugins' = plugins
             /\ initialized' = initialized
      ]_vars

\* an unknown name was resolved while another plugin is registered and
\* initialized
C17_Witness ==
    /\ MapHas(plugins, "linear")
    /\ "linear" \in initialized
    /\ \E r \in Reqs :
          /\ Done(r)
          /\ req[r].url = <<"ghost", "my-issues">>
          /\ req[r].route = "execute"
          /\ req[r].initCalls = 0
          /\ req[r].threw = "nothing"

\* Error values that differ in class, status and message.
InternalMessages == {<<"boom">>, <<"connect ECONNREFUSED 10.0.0.7:5432">>}

ErrorSamples ==
    {AppError(m, st) : m \in InternalMessages, st \in {400, 404, 500, 503}}
    \cup {PluginError("linear", m, st) : m \in InternalMessages, st \in {404, 500}}
    \cup {ApiError(m, st) : m \in InternalMessages, st \in {401, 502}}
    \cup {PlainError(m) : m \in InternalMessages}
    \cup {URIError(m) : m \in InternalMessages}

\* the status errorHandler answers err with
StatusOf(err) == errorHandler(err, NoParams).status

\* C18: in production the terminal stage answers every error of status >= 500
\* with the error field 'Internal server error', so that two errors differing
\* only in their message get the same response; an error of status < 500 is
\* answered with its own message; outside production every message is passed on.
C18_ProductionSanitizes ==
    /\ \A r \in Reqs :
          (Done(r) /\ req[r].response.by = "errorHandler")
          => LET err == req[r].forwarded[1]
                 resp == req[r].response
             IN  IF NODE_ENV = "production" /\ resp.status >= 500
                 THEN resp.body.error = <<"Internal server error">>
                 ELSE resp.body.error = err.message
    /\ \A e1 \in ErrorSamples :
          LET resp1 == errorHandler(e1, NoParams)
          IN  /\ (NODE_ENV = "production" /\ resp1.status >= 500)
                    => /\ resp1.body.error = <<"Internal server error">>
                       /\ \A e2 \in ErrorSamples :
                             [e2 EXCEPT !.message = e1.message] = e1
                                => errorHandler(e2, NoParams) = resp1
              /\ (NODE_ENV # "production" \/ resp1.status < 500)
                    => resp1.body.error = e1.message

\* in production a handler's plain Error was answered with the fixed message
C18_Witness ==
    /\ NODE_ENV = "production"
    /\ \E r \in Reqs :
          /\ Done(r)
          /\ req[r].thrown = Some(PlainError(<<"boom">>))
          /\ req[r].response.status = 500
          /\ req[r].response.body.error = <<"Internal server error">>

ErrorEnvelopeKeys == {"error", "statusCode", "timestamp"}

\* C19: every response of the terminal stage has the keys error, statusCode
\* and timestamp, possibly app and path, and no other; its statusCode field is
\* the HTTP status, which is the error's statusCode for an AppError or a
\* subclass and 500 for every other error.
C19_ErrorEnvelope ==
    /\ \A r \in Reqs :
          (Done(r) /\ req[r].response.by = "errorHandler")
          => LET err == req[r].forwarded[1]
                 resp == req[r].response
             IN  /\ ErrorEnvelopeKeys \subseteq DOMAIN resp.body
                 /\ DOMAIN resp.body \subseteq ErrorEnvelopeKeys \cup {"app", "path"}
                 /\ resp.body.statusCode = resp.status
                 /\ resp.status = IF InstanceOfAppError(err) THEN err.statusCode ELSE 500
    /\ \A e \in ErrorSamples, a \in {Undefined, "linear"}, p \in {Undefined, "my-issues"} :
          LET resp == errorHandler(e, [NoParams EXCEPT !.app = a, !.path = p])
          IN  /\ ErrorEnvelopeKeys \subseteq DOMAIN resp.body
              /\ DOMAIN resp.body \subseteq ErrorEnvelopeKeys \cup {"app", "path"}
              /\ resp.body.statusCode = resp.status
              /\ resp.status = IF InstanceOfAppError(e) THEN e.statusCode ELSE 500

\* an error that is not an AppError, carrying a statusCode of its own, was
\* answered with 500
C19_Witness ==
    \E r \in Reqs :
       /\ Done(r)
       /\ req[r].response.by = "errorHandler"
       /\ req[r].forwarded[1].class = "URIError"
       /\ req[r].forwarded[1].statusCode = 400
       /\ req[r].response.status = 500
       /\ req[r].response.body.statusCode = 500

\* C20 (as claimed): every request that one of the router's routes answers
\* with a status outside 2xx is answered by the terminal stage; no route and
\* no descriptor's handler writes such a response itself.
C20_OnlyTerminalStageWritesFailures ==
    \A r \in Reqs :
       (/\ Done(r)
        /\ req[r].route \in {"items", "list", "execute"}
        /\ req[r].response.status \notin 200..299)
       => req[r].response.by = "errorHandler"

\* the app name of a request answered by the terminal stage, when it is
\* known: a segment of the route that matched, or the name a PluginError bears
KnownApp(r) ==
    IF InstanceOfPluginError(req[r].forwarded[1]) THEN req[r].forwarded[1].pluginName
    ELSE IF req[r].route = "list" THEN req[r].url[2]
    ELSE IF req[r].route = "execute" THEN req[r].url[1]
    ELSE Undefined

\* C21 (as claimed): every error envelope of a request whose app name is
\* known carries the app field with that name; so do the 'app not found'
\* answers of GET /list/{app} and GET /{app}/{path}.
C21_AppContextIncluded ==
    \A r \in Reqs :
       (/\ Done(r)
        /\ req[r].response.by = "errorHandler"
        /\ KnownApp(r) # Undefined)
       => /\ "app" \in DOMAIN req[r].response.body
          /\ req[r].response.body.app = KnownApp(r)

\* the entry of the apps directory with this name
EntryNamed(name) == CHOOSE e \in AppsDirEntries : e.name = name

\* an iteration of discoverPlugins has handled an entry with this step
HandlesEntry == discovery'.entry # "" /\ discovery.status \in {"idle", "loop", "returned"}

\* the entry is a subdirectory with an index module that loads and whose
\* *Plugin export (the first key that ends in 'Plugin') holds a plugin
HasPluginExport(e) ==
    /\ e.isDirectory
    /\ e.indexTs \/ e.indexJs
    /\ e.load = "ok"
    /\ discoverPlugins_pluginExport(e.exports) # 0
    /\ e.exports[discoverPlugins_pluginExport(e.exports)].value # None

PluginExportOf(e) == e.exports[discoverPlugins_pluginExport(e.exports)].value[1]

NamesPassed ==
    {n \in PluginNames :
        \/ firstPassed'[n] # firstPassed[n]
        \/ n \in collided' \ collided}

\* C27: one iteration of discoverPlugins calls registerPlugin at most once;
\* the plugin it passes is the module's first export whose key ends in
\* 'Plugin', also when later exports end in 'Plugin' too; an entry that is not
\* a directory is not loaded and registers nothing.
C27_OneRegistrationPerDirectory ==
    [][/\ Len(discovery'.passed) <= 1
       /\ Cardinality(NamesPassed) <= 1
       /\ Len(plugins') <= Len(plugins) + 1
       /\ (NamesPassed # {} \/ plugins' # plugins)
             => /\ HandlesEntry
                /\ Len(discovery'.passed) = 1
       /\ HandlesEntry
             => LET e == EntryNamed(discovery'.entry)
                IN  /\ ~e.isDirectory
                       => /\ ~discovery'.required
                          /\ discovery'.passed = <<>>
                          /\ plugins' = plugins
                          /\ NamesPassed = {}
                    /\ Len(discovery'.passed) = 1
                       => /\ HasPluginExport(e)
                          /\ discovery'.passed[1] = PluginExportOf(e).id
                          /\ \A n \in NamesPassed : n = PluginExportOf(e).name
      ]_vars

\* the module of the mock directory exports two plugins; only the first one
\* was passed to registerPlugin
C27_Witness ==
    /\ discovery.entry = "mock"
    /\ discovery.passed = <<"mockPlugin">>
    /\ firstPassed["linear"] = "mockPlugin"
    /\ Len(plugins) = 1

\* C23: a request for which a handler has been invoked belongs to a plugin
\* that is in the initialized set, one of whose initialize invocations has
\* completed without error; this holds under every interleaving of the
\* requests, whatever the other initialize invocations of the plugin did.
C23_HandlerOnlyAfterInitialized ==
    \A r \in Reqs :
       req[r].handlerCalls > 0
       => /\ req[r].params.app \in initialized
          /\ req[r].params.app \in initOk
          /\ req[r].pc # "initialize"
          /\ req[r].threw # "initialize"

\* two requests initialized the plugin at the same time: one has reached its
\* handler while the initialize of the other is still in flight
C23_Witness ==
    \E r1, r2 \in Reqs :
       /\ req[r1].handlerCalls = 1
       /\ req[r1].params.app = "linear"
       /\ req[r1].initCalls = 1
       /\ req[r2].pc = "initialize"
       /\ req[r2].params.app = "linear"
       /\ "linear" \in initialized

\* C24: whatever initialize or a handler throws, the route forwards exactly
\* one error: the thrown error itself, with its status and message, when it is
\* an AppError or a subclass, and a PluginError of status 500 otherwise.
C24_TaxonomyErrorsPassThrough ==
    \A r \in Reqs :
       (Done(r) /\ req[r].thrown # None)
       => LET err == req[r].thrown[1]
          IN  /\ Len(req[r].forwarded) = 1
              /\ InstanceOfAppError(err)
                    => /\ req[r].forwarded[1] = err
                       /\ req[r].response.status = err.statusCode
              /\ ~InstanceOfAppError(err)
                    => /\ InstanceOfPluginError(req[r].forwarded[1])
                       /\ req[r].forwarded[1].statusCode = 500

\* a handler threw the ApiError 502 of the client, and that error was forwarded
C24_Witness ==
    \E r \in Reqs :
       /\ Done(r)
       /\ req[r].threw = "handler"
       /\ req[r].thrown = Some(ApiError(<<"Failed to fetch issues from Linear">>, 502))
       /\ req[r].forwarded = <<ApiError(<<"Failed to fetch issues from Linear">>, 502)>>
       /\ req[r].response.status = 502

\* C25: the descriptor whose handler is invoked for a request is the first
\* one of the plugin's path list that bears the requested name; a descriptor
\* declared after another of the same name is never invoked.
C25_FirstDescriptorWins ==
    \A r \in Reqs :
       (req[r].handlerCalls > 0 /\ MapHas(plugins, req[r].params.app))
       => LET paths == MapGet(plugins, req[r].params.app).paths
          IN  /\ req[r].handlerIdx \in 1..Len(paths)
              /\ paths[req[r].handlerIdx].name = req[r].params.path
              /\ \A j \in 1..(req[r].handlerIdx - 1) : paths[j].name # req[r].params.path
              /\ req[r].handler = paths[req[r].handlerIdx].handler
              /\ req[r].handler # shadowedIssuesHandler.handler

\* the plugin declares my-issues twice; the request was given to the first
\* descriptor
C25_Witness ==
    /\ MapHas(plugins, "linear")
    /\ MapGet(plugins, "linear") = filteredPlugin
    /\ \E r \in Reqs :
          /\ Done(r)
          /\ req[r].url = <<"linear", "my-issues">>
          /\ req[r].handlerCalls = 1
          /\ req[r].handlerIdx = 1
          /\ req[r].handler = filteredIssuesHandler.handler

\* C26: the plugin map changes only in an iteration of discoverPlugins that
\* calls registerPlugin, before the router is mounted; a step of a request
\* leaves the map as it was, and the initialized set changes only when an
\* awaited initialize returns, by the name of that request's plugin.
C26_RegistryWrites ==
    [][/\ plugins' # plugins
             => /\ phase = "startup"
                /\ phase' = "startup"
                /\ HandlesEntry
                /\ Len(discovery'.passed) = 1
                /\ req' = req
       /\ phase = "serving" => plugins' = plugins
       /\ initialized' # initialized
             => /\ phase = "serving"
                /\ \E r \in Reqs :
                      /\ req[r].pc = "initialize"
                      /\ req'[r].pc # "initialize"
                      /\ req'[r].threw # "initialize"
                      /\ initialized' = initialized \cup {req[r].params.app}
      ]_vars

\* requests have been served, one of them initialized its plugin, and the map
\* still holds the two plugins registered at startup
C26_Witness ==
    /\ phase = "serving"
    /\ Len(plugins) = 2
    /\ initialized = {"linear"}
    /\ \E r \in Reqs : Done(r) /\ req[r].route = "list"

\* a request GET /list/X
ListURL(r) == Len(req[r].url) = 2 /\ req[r].url[1] = "list" /\ req[r].url[2] # Malformed

\* C28: every request GET /list/X is answered by the list-paths route: no
\* handler of a descriptor is invoked for it and it triggers no initialize,
\* also when a plugin named list is registered; no request ever initializes
\* that plugin.
C28_ListRouteTakesPrecedence ==
    /\ \A r \in Reqs :
          (req[r].pc # "idle" /\ ListURL(r))
          => /\ req[r].route = "list"
             /\ req[r].pc = "done"
             /\ req[r].handlerCalls = 0
             /\ req[r].initCalls = 0
             /\ req[r].handler = IdleReq.handler
             /\ req[r].response.by # "handler"
    /\ initCalls["list"] = 0
    /\ "list" \notin initialized

\* a plugin named list is registered with the descriptor my-issues, and
\* GET /list/my-issues was answered by the list-paths route: no app my-issues
C28_Witness ==
    /\ MapHas(plugins, "list")
    /\ MapGet(plugins, "list") = listPlugin
    /\ \E r \in Reqs :
          /\ Done(r)
          /\ req[r].url = <<"list", "my-issues">>
          /\ req[r].route = "list"
          /\ req[r].response.status = 404
          /\ req[r].handlerCalls = 0

\* the names that are keys of a plugin map, as a set
KeySet(m) == {m[i].key : i \in 1..Len(m)}

\* C29: the initialized set is a subset of the registered names; a registered
\* name stays registered with the same plugin object; a name in the
\* initialized set stays there, and a request that arrives at the execute
\* route for such a name invokes no initialize.
C29_RegistryOnlyGrows ==
    [][/\ initialized \subseteq KeySet(plugins)
       /\ initialized' \subseteq KeySet(plugins')
       /\ \A n \in KeySet(plugins) :
             /\ MapHas(plugins', n)
             /\ MapGet(plugins', n) = MapGet(plugins, n)
       /\ initialized \subseteq initialized'
       /\ \A r \in Reqs :
             (ArrivesAtExecute(r) /\ req'[r].params.app \in initialized)
             => /\ req'[r].pc # "initialize"
                /\ req'[r].initCalls = 0
                /\ initCalls' = initCalls
      ]_vars

\* the plugin was initialized by one request, the initialize of a concurrent
\* request failed afterwards, and a later request was given to the handler
\* without an initialize of its own
C29_Witness ==
    /\ "linear" \in initialized
    /\ "linear" \in initFailed
    /\ initCalls["linear"] = 2
    /\ \E r \in Reqs :
          /\ req[r].route = "execute"
          /\ req[r].params.app = "linear"
          /\ req[r].initCalls = 0
          /\ req[r].handlerCalls = 1

\* the terminal actions of the execute route on a finished request
ForwardedAppNotFound(r) ==
    /\ req[r].threw = IdleReq.threw
    /\ req[r].forwarded = <<executeAppNotFound(req[r].params.app)>>

ForwardedPathNotFound(r) ==
    /\ req[r].threw = IdleReq.threw
    /\ req[r].forwarded =
          <<PluginError(req[r].params.app,
                        PathNotFoundMessage(req[r].params.path, req[r].params.app),
                        404)>>

ForwardedValidationError(r) ==
    /\ req[r].validation = "failure"
    /\ Len(req[r].forwarded) = 1
    /\ req[r].forwarded[1].statusCode = 400

InvokedHandlerOnce(r) == req[r].handlerCalls = 1

ForwardedInitializeFailure(r) ==
    /\ req[r].threw = "initialize"
    /\ Len(req[r].forwarded) = 1

\* the number of the listed terminal actions a request has taken
TerminalActions(r, withInitializeFailure) ==
    Cardinality({k \in 1..5 :
                   \/ k = 1 /\ ForwardedAppNotFound(r)
                   \/ k = 2 /\ ForwardedPathNotFound(r)
                   \/ k = 3 /\ ForwardedValidationError(r)
                   \/ k = 4 /\ InvokedHandlerOnce(r)
                   \/ k = 5 /\ withInitializeFailure /\ ForwardedInitializeFailure(r)})

\* what holds of every request of the execute route, finished or not
ExecuteAtMostOnce(r) ==
    /\ req[r].handlerCalls <= 1
    /\ Len(req[r].forwarded) <= 1
    /\ req[r].handlerCalls > 0
          => /\ ~ForwardedAppNotFound(r)
             /\ ~ForwardedPathNotFound(r)
             /\ ~ForwardedValidationError(r)
             /\ req[r].forwarded # <<>> => req[r].threw = "handler"

\* C30 (as stated): a finished request of the execute route has taken exactly
\* one of four terminal actions: app-not-found forwarded, path-not-found
\* forwarded, a validation error forwarded, the handler invoked exactly once.
C30_OneTerminalActionOfFour ==
    \A r \in Reqs :
       req[r].route = "execute"
       => /\ ExecuteAtMostOnce(r)
          /\ Done(r) => TerminalActions(r, FALSE) = 1

\* C30 (amended): a finished request of the execute route has taken exactly
\* one of five terminal actions: the four above, or the failure of the
\* plugin's initialize forwarded without any handler invoked; the handler is
\* never invoked together with a not-found or validation error, and at most
\* one error is forwarded per request.
C30_OneTerminalAction ==
    \A r \in Reqs :
       req[r].route = "execute"
       => /\ ExecuteAtMostOnce(r)
          /\ Done(r) => TerminalActions(r, TRUE) = 1
          /\ ForwardedInitializeFailure(r) => req[r].handlerCalls = 0

\* the initialize of the plugin failed: its error was forwarded, no handler ran
C30_Witness ==
    \E r \in Reqs :
       /\ Done(r)
       /\ req[r].route = "execute"
       /\ ForwardedInitializeFailure(r)
       /\ req[r].handlerCalls = 0
       /\ req[r].response.by = "errorHandler"

\* a request of the execute route is in flight
ExecuteInFlight(r) ==
    /\ req[r].route = "execute"
    /\ req[r].pc \in {"initialize", "handler"}

\* a request of the execute route has its terminal outcome: the handler's
\* result, or an error forwarded to the terminal stage
ExecuteOutcome(r) ==
    /\ req[r].route = "execute"
    /\ Done(r)
    /\ \/ req[r].response.by = "handler" /\ req[r].forwarded = <<>>
       \/ Len(req[r].forwarded) = 1 /\ req[r].response.by = "errorHandler"

\* C31: when every awaited initialize and handler settles, every request of
\* the execute route that is in flight eventually has its terminal outcome,
\* whatever the other requests do, a concurrent first initialization of the
\* same plugin included.
C31_ExecuteRequestsTerminate ==
    \A r \in Reqs : ExecuteInFlight(r) ~> ExecuteOutcome(r)

\* two requests race on the first initialization of the plugin: both await an
\* initialize of their own
C31_Witness ==
    /\ "linear" \notin initialized
    /\ initCalls["linear"] = 2
    /\ \A r \in Reqs :
          /\ ExecuteInFlight(r)
          /\ req[r].pc = "initialize"
          /\ req[r].params.app = "linear"

====
